---- MODULE Spec2Model ----
(***************************************************************************)
(* A model of mongodbforms/documents.py: the form-class definition         *)
(* (fields_for_document, DocumentFormMetaclass), the lifecycle of a bound  *)
(* document form (construct, validate, save), the embedded form, the       *)
(* formset, and the file-name collision handling against blob storage.     *)
(*                                                                         *)
(* The document store, the blob store (GridFS), the form layer's field     *)
(* cleaning and the schema validators are collaborators of the code; they  *)
(* are modelled by what the code relies on at each call site.              *)
(***************************************************************************)
EXTENDS Integers, Sequences, FiniteSets, TLC

VARIABLES
    cfg,      \* class definition: the configuration block and declared fields
    cls,      \* class definition: the outcome of DocumentFormMetaclass.__new__
    store,    \* the document store: the set of persisted records
    blobs,    \* the blob store: the set of stored files [id, filename]
    form,     \* the bound form of the current submission
    calls,    \* per submission: the persistence calls made so far
    nsub,     \* number of submissions handled so far
    fset,     \* the formset of the current submission
    layer     \* the form layer the program runs on

vars == <<cfg, cls, store, blobs, form, calls, nsub, fset, layer>>

----------------------------------------------------------------------------
(* Bounds of the model *)

\* longest allow-list tried at class definition
MaxAllow == 2
\* submissions handled one after the other against the same stores
MaxSubmissions == 2
\* sub-forms of a formset
MaxForms == 2

----------------------------------------------------------------------------
(* Generic helpers over sequences *)

Range(s) == {s[i] : i \in DOMAIN s}

InSeq(x, s) == \E i \in DOMAIN s : s[i] = x

\* position of x in s (0 when absent)
IndexOf(x, s) == IF InSeq(x, s) THEN CHOOSE i \in DOMAIN s : s[i] = x /\ \A j \in 1..(i-1) : s[j] # x ELSE 0

\* Op applied to the value of e
With(e, Op(_)) == CHOOSE y \in {Op(x) : x \in {e}} : TRUE

\* duplicate-free sequences over S of length at most n
RECURSIVE SeqsUpTo(_, _)
SeqsUpTo(S, n) ==
    IF n = 0 THEN {<<>>}
    ELSE LET shorter == SeqsUpTo(S, n - 1)
         IN  shorter \cup UNION {{Append(s, x) : x \in S \ Range(s)} : s \in {t \in shorter : Len(t) = n - 1}}

----------------------------------------------------------------------------
(* Document schemas: instance._fields, in iteration order *)

\* a field descriptor: kind is the field type (ObjectIdField, StringField,
\* ListField, FileField)
Descriptor(n, k, req, uniq) == [name |-> n, kind |-> k, required |-> req, unique |-> uniq]

\* the longest string a StringField of the schemas accepts (its max_length)
StringLimit(f) == IF f.kind = "string" THEN 1 ELSE 0

DocFields ==
    << Descriptor("id", "objectid", FALSE, FALSE),
       Descriptor("name", "string", TRUE, TRUE),
       Descriptor("nick", "string", FALSE, TRUE),
       Descriptor("tags", "list", FALSE, FALSE),
       Descriptor("photo", "file", TRUE, FALSE) >>

\* an embedded document: no identity, no unique index of its own
EmbFields ==
    << Descriptor("name", "string", TRUE, FALSE),
       Descriptor("nick", "string", FALSE, FALSE) >>

\* a document with nothing to derive a form field from
BareFields ==
    << Descriptor("id", "objectid", FALSE, FALSE),
       Descriptor("tags", "list", FALSE, FALSE) >>

DocumentClasses == {"Doc", "Emb", "Bare"}

SchemaOf(document) ==
    CASE document = "Doc" -> DocFields
      [] document = "Emb" -> EmbFields
      [] OTHER -> BareFields

SchemaNames(document) == {SchemaOf(document)[i].name : i \in DOMAIN SchemaOf(document)}

----------------------------------------------------------------------------
(* Class definition: fields_for_document and DocumentFormMetaclass.__new__ *)

\* Optional lists: given = FALSE is Python's None
NoList == [given |-> FALSE, names |-> <<>>]
SomeList(s) == [given |-> TRUE, names |-> s]
\* Python truthiness of an optional list
Truthy(l) == l.given /\ l.names # <<>>

\* a form field (ok = FALSE is Python's None) and the widget it carries
NoField == [ok |-> FALSE, widget |-> "none"]
FormField(w) == [ok |-> TRUE, widget |-> w]

\* field_generator.generate(f.name, f): the generator is handed the name and
\* the descriptor only
Generate(f) == FormField("default")

\* formfield_callback(f, **kwargs): a supplied callback builds the field
\* from the keyword arguments, or returns None for the fields it skips
CallbackField(f, kwargs, cbskip) ==
    IF f.name \in cbskip THEN NoField
    ELSE FormField(IF kwargs.given THEN kwargs.widget ELSE "default")

\* the loop of lines 144-149 without the test of the deny-list
SkippedNoDeny(f, fields, exclude) ==
    \/ f.kind \in {"objectid", "list"}
    \/ fields.given /\ ~InSeq(f.name, fields.names)

\* lines 144-149: the fields the loop goes past
Skipped(f, fields, exclude) ==
    \/ f.kind \in {"objectid", "list"}
    \/ fields.given /\ ~InSeq(f.name, fields.names)
    \/ Truthy(exclude) /\ InSeq(f.name, exclude.names)

\* lines 150-159: the form field made for one schema field
FormFieldFor(f, widgets, callback, cbskip) ==
    LET kwargs == IF f.name \in widgets THEN [given |-> TRUE, widget |-> "override"]
                  ELSE [given |-> FALSE, widget |-> "default"]
        formfield == Generate(f)
    IN  IF callback = "callable" THEN CallbackField(f, kwargs, cbskip) ELSE formfield

\* lines 168-169: the allow-list names that make it into the mapping
KeepInOrder(n, exclude, ignored) ==
    /\ (~Truthy(exclude)) \/ (Truthy(exclude) /\ ~InSeq(n, exclude.names))
    /\ n \notin ignored

\* A SortedDict is a sequence of <<key, value>> pairs with distinct keys
Keys(d) == [i \in DOMAIN d |-> d[i][1]]
HasKey(d, k) == \E i \in DOMAIN d : d[i][1] = k
Get(d, k) == IF HasKey(d, k) THEN d[CHOOSE i \in DOMAIN d : d[i][1] = k][2] ELSE NoField

\* SortedDict.update: a known key keeps its place and takes the new value,
\* a new key is appended
RECURSIVE Update(_, _)
Update(d, e) ==
    IF e = <<>> THEN d
    ELSE LET k == Head(e)[1]
             v == Head(e)[2]
             d2 == IF HasKey(d, k)
                   THEN [i \in DOMAIN d |-> IF d[i][1] = k THEN <<k, v>> ELSE d[i]]
                   ELSE Append(d, <<k, v>>)
         IN  Update(d2, Tail(e))

\* lines 165-170: with a non-empty allow-list the mapping is rebuilt in the
\* allow-list's order, a name without a generated field mapping to None
Reorder(field_dict, fields, exclude, ignored) ==
    IF Truthy(fields)
    THEN LET kept == SelectSeq(fields.names, LAMBDA n : KeepInOrder(n, exclude, ignored))
         IN  [i \in DOMAIN kept |-> <<kept[i], Get(field_dict, kept[i])>>]
    ELSE field_dict

\* fields_for_document: raised = TRUE is the TypeError of line 157
FieldsForDocument(document, fields, exclude, widgets, callback, cbskip) ==
    LET schema == SchemaOf(document)
        reached == SelectSeq(schema, LAMBDA f : ~Skipped(f, fields, exclude))
        made == [i \in DOMAIN reached |-> <<reached[i].name, FormFieldFor(reached[i], widgets, callback, cbskip)>>]
        field_list == SelectSeq(made, LAMBDA p : p[2].ok)
        ignored == {made[i][1] : i \in {j \in DOMAIN made : ~made[j][2].ok}}
    IN  IF callback = "notcallable" /\ reached # <<>>
        THEN [raised |-> TRUE, dict |-> <<>>]
        ELSE [raised |-> FALSE, dict |-> Reorder(field_list, fields, exclude, ignored)]

\* lines 212-214
MissingFields(fields, declared) ==
    {fields[i][1] : i \in {j \in DOMAIN fields : ~fields[j][2].ok}} \ {declared[i][1] : i \in DOMAIN declared}

\* DocumentFormMetaclass.__new__ for a class with a document configured
NewClass(c) ==
    LET r == FieldsForDocument(c.document, c.fields, c.exclude, c.widgets, c.callback, c.cbskip)
        missing == MissingFields(r.dict, c.declared)
    IN  IF r.raised
        THEN [status |-> "TypeError", missing |-> {}, auto |-> <<>>, base_fields |-> <<>>]
        ELSE IF missing # {}
        THEN [status |-> "FieldError", missing |-> missing, auto |-> r.dict, base_fields |-> <<>>]
        ELSE [status |-> "ok", missing |-> {}, auto |-> r.dict, base_fields |-> Update(r.dict, c.declared)]

\* names a class body may list or declare: the schema's and one unknown
ConfigNames == {"id", "name", "nick", "tags", "photo", "bogus"}

AllowLists == {NoList} \cup {SomeList(s) : s \in SeqsUpTo(ConfigNames, MaxAllow)}
DenyLists == {NoList} \cup {SomeList(s) : s \in {<<>>, <<"name">>, <<"bogus">>, <<"nick", "bogus">>}}
DeclaredSets == {<<>>, <<<<"bogus", FormField("declared")>>>>, <<<<"nick", FormField("declared")>>, <<"tags", FormField("declared")>>>>}
WidgetMaps == {{}, {"name"}}
Callbacks == {"none", "callable", "notcallable"}

Configs ==
    [document : DocumentClasses, fields : AllowLists, exclude : DenyLists,
     declared : DeclaredSets, widgets : WidgetMaps, callback : Callbacks,
     cbskip : {{}, {"nick"}}]

Pending == [status |-> "pending", missing |-> {}, auto |-> <<>>, base_fields |-> <<>>]

----------------------------------------------------------------------------
(* Values, instances and the two stores *)

\* Values are sequences of characters; Python's None is a sequence no text is
PyNone == <<"None">>
EmptyString == <<>>
\* django.core.validators.EMPTY_VALUES, as far as the schemas' values go
EMPTY_VALUES == {PyNone, EmptyString}

\* the initial value a widget shows: None shows as the empty string
Shown(v) == IF v = PyNone THEN EmptyString ELSE v

StringNames == {"name", "nick"}
FileNames == {"photo"}

\* a GridFSProxy without a file
NoFile == [grid_id |-> 0, filename |-> <<>>]

\* instance = document(): nothing set, the whole schema active; swapped tells
\* that instance._fields is the dict save_instance built at line 94
NewInstance(document) ==
    [isclass |-> FALSE, document |-> document, pk |-> 0,
     attrs |-> [n \in StringNames |-> PyNone],
     files |-> [n \in FileNames |-> NoFile],
     items |-> <<>>,
     active |-> SchemaNames(document), changed |-> {}, swapped |-> FALSE]

\* self.instance = opts.document: the class itself, not yet instantiated
ClassInstance(document) == [NewInstance(document) EXCEPT !.isclass = TRUE]

\* a record of the document store, loaded as an instance
Loaded(r) ==
    [isclass |-> FALSE, document |-> "Doc", pk |-> r.pk, attrs |-> r.attrs,
     files |-> r.files, items |-> r.items,
     active |-> SchemaNames("Doc"), changed |-> {}, swapped |-> FALSE]

FieldByName(document, n) ==
    SchemaOf(document)[CHOOSE i \in DOMAIN SchemaOf(document) : SchemaOf(document)[i].name = n]

\* getattr(instance, f.name): the identity, a string, the collection or the
\* GridFSProxy of a file field
GetAttr(instance, f) ==
    CASE f.kind = "objectid" -> instance.pk
      [] f.kind = "string" -> instance.attrs[f.name]
      [] f.kind = "list" -> instance.items
      [] OTHER -> instance.files[f.name]

\* an uploaded file, as the form layer hands it over: it has a name
UploadedFile(name) == [name |-> name]

\* None where a file is expected
NoUpload == [nothing |-> TRUE]

\* the value cleaned for a file field is an upload, not a GridFSProxy
IsUpload(v) == "name" \in DOMAIN v

\* bool(proxy): a GridFSProxy is true when it refers to a stored file
ProxyTruthy(proxy) == proxy.grid_id # 0

----------------------------------------------------------------------------
(* _get_unique_filename *)

DigitChars == <<"0", "1", "2", "3", "4", "5", "6", "7", "8", "9">>

\* "%s" of a positive integer
RECURSIVE Digits(_)
Digits(n) == IF n < 10 THEN <<DigitChars[n + 1]>> ELSE Digits(n \div 10) \o <<DigitChars[(n % 10) + 1]>>

SetMax(S) == CHOOSE x \in S : \A y \in S : y <= x

\* os.path.splitext on a name without directory part: the extension starts at
\* the last dot, unless only dots come before it
SplitExt(name) ==
    LET dots == {i \in DOMAIN name : name[i] = "."}
    IN  IF dots = {} THEN <<name, <<>>>>
        ELSE LET d == SetMax(dots)
             IN  IF \A i \in 1..(d - 1) : name[i] = "."
                 THEN <<name, <<>>>>
                 ELSE <<SubSeq(name, 1, d - 1), SubSeq(name, d, Len(name))>>

\* fs.exists(filename=name)
Exists(files, name) == \E b \in files : b.filename = name

\* the probing loop written as a single test: one suffix is tried at most
ProbeOnce(name, file_root, file_ext, count, files) ==
    IF Exists(files, name) THEN file_root \o <<"_">> \o Digits(count) \o file_ext ELSE name

\* lines 27-30: the while loop, count being itertools.count(1)
RECURSIVE Probe(_, _, _, _, _)
Probe(name, file_root, file_ext, count, files) ==
    IF Exists(files, name)
    THEN Probe(file_root \o <<"_">> \o Digits(count) \o file_ext, file_root, file_ext, count + 1, files)
    ELSE name

GetUniqueFilename(name, files) ==
    LET parts == SplitExt(name) IN Probe(name, parts[1], parts[2], 1, files)

\* GridFSProxy.replace: the proxy's own file is deleted, the upload is put
\* under the given filename and the proxy refers to the new file
Replace(bl, proxy, filename) ==
    LET kept == {b \in bl.files : b.id # proxy.grid_id}
        new == [id |-> bl.next, filename |-> filename]
    IN  [files |-> kept \cup {new}, next |-> bl.next + 1]

----------------------------------------------------------------------------
(* construct_instance *)

\* lines 48-55: the schema fields whose cleaned value is taken over
Taken(f, cleaned, fields, exclude) ==
    /\ f.kind # "objectid"
    /\ f.name \in DOMAIN cleaned
    /\ ~(fields.given /\ ~InSeq(f.name, fields.names))
    /\ ~(Truthy(exclude) /\ InSeq(f.name, exclude.names))

\* lines 64-69: one deferred file field. The cleaned value is used as an
\* upload (upload.name, upload.file.seek): a GridFSProxy, which the form layer
\* cleans to when nothing was uploaded for a stored file, is none, and the
\* AttributeError leaves construct_instance before anything is written
PutFile(f, cleaned, st) ==
    LET upload == cleaned[f.name]
        field == st.instance.files[f.name]
        filename == GetUniqueFilename(upload.name, st.blobs.files)
        proxy == [grid_id |-> st.blobs.next, filename |-> filename]
        entry == [upload |-> upload.name, chosen |-> filename,
                  before |-> {b.filename : b \in st.blobs.files}]
    IN  IF ~IsUpload(upload)
        THEN [st EXCEPT !.raised = TRUE]
        ELSE [instance |-> [st.instance EXCEPT !.files[f.name] = proxy, !.changed = @ \cup {f.name}],
              blobs |-> Replace(st.blobs, field, filename),
              log |-> Append(st.log, entry),
              raised |-> FALSE]

\* lines 63-69: the deferred file fields, one after the other; log keeps, for
\* each upload, the name chosen and the names stored when it was chosen
RECURSIVE PutFiles(_, _, _)
PutFiles(file_field_list, cleaned, st) ==
    IF file_field_list = <<>> \/ st.raised THEN st
    ELSE With(PutFile(Head(file_field_list), cleaned, st),
              LAMBDA st2 : PutFiles(Tail(file_field_list), cleaned, st2))

\* lines 44-61: the instance with the cleaned values of the plain fields set
SetPlain(cleaned, instance, fields, exclude) ==
    LET schema == SelectSeq(SchemaOf(instance.document), LAMBDA f : f.name \in instance.active)
        taken == SelectSeq(schema, LAMBDA f : Taken(f, cleaned, fields, exclude))
        plain == {taken[i].name : i \in {j \in DOMAIN taken : taken[j].kind = "string"}}
    IN  [instance EXCEPT !.attrs = [n \in StringNames |-> IF n \in plain THEN cleaned[n] ELSE @[n]],
                         !.changed = @ \cup plain]

\* lines 58-59: file_field_list
FileFieldList(cleaned, instance, fields, exclude) ==
    SelectSeq(SchemaOf(instance.document),
              LAMBDA f : f.name \in instance.active /\ f.kind = "file" /\ Taken(f, cleaned, fields, exclude))

\* construct_instance(form, instance, fields, exclude): the instance, the
\* blob store after it, the log of the file names chosen, and whether it was
\* left by the AttributeError of lines 66-67
ConstructInstance(cleaned, instance0, fields, exclude, bl) ==
    With(IF instance0.isclass THEN NewInstance(instance0.document) ELSE instance0,
         LAMBDA instance :
            With(SetPlain(cleaned, instance, fields, exclude),
                 LAMBDA set : PutFiles(FileFieldList(cleaned, instance, fields, exclude), cleaned,
                                       [instance |-> set, blobs |-> bl, log |-> <<>>, raised |-> FALSE])))

----------------------------------------------------------------------------
(* The bound form: validation *)

NON_FIELD_ERRORS == "__all__"
ErrorKeys == {"id", "name", "nick", "tags", "photo", NON_FIELD_ERRORS}
NoErrors == [k \in ErrorKeys |-> <<>>]

\* form.errors is truthy
HasErrors(fm) == \E k \in ErrorKeys : fm.errors[k] # <<>>

\* the generated form field is required when the schema field is
FormRequired(f) == f.required

\* the value submitted for a form field
Submitted(fm, n) == IF n \in FileNames THEN fm.upload ELSE fm.data[n]

\* form.initial.get(name): the initial value of a form field, None when the
\* initial data has none
InitialValue(fm, n) ==
    IF n \in DOMAIN fm.initial THEN fm.initial[n]
    ELSE IF n \in FileNames THEN NoFile ELSE PyNone

\* the form layer's FileField.clean(data, initial): without an upload the
\* initial value, when there is one, is the cleaned value
KeepsInitial(fm, n) ==
    n \in FileNames /\ fm.upload = PyNone /\ ProxyTruthy(InitialValue(fm, n))

\* the value a form field cleans to
CleanedValue(fm, n) ==
    IF n \in FileNames
    THEN IF KeepsInitial(fm, n) THEN InitialValue(fm, n)
         ELSE IF fm.upload = PyNone THEN NoUpload
         ELSE UploadedFile(fm.upload)
    ELSE fm.data[n]

\* the form layer's field cleaning: a required field without a value gets an
\* error and no cleaned value, any other field its cleaned value
CleanFields(fm) ==
    LET bad == {n \in fm.fields : /\ FormRequired(FieldByName(fm.cls.document, n))
                                  /\ Submitted(fm, n) \in EMPTY_VALUES
                                  /\ ~KeepsInitial(fm, n)}
    IN  [fm EXCEPT !.has_cleaned = TRUE,
                   !.cleaned = [n \in fm.fields \ bad |-> CleanedValue(fm, n)],
                   !.errors = [k \in ErrorKeys |-> IF k \in bad THEN <<"required">> ELSE <<>>]]

\* clean(), lines 311-313
Clean(fm) == [fm EXCEPT !.validate_unique = TRUE]

\* _update_errors for a one-key message dict {k: v}
UpdateErrors(fm, k, v) ==
    IF k # NON_FIELD_ERRORS
    THEN [fm EXCEPT !.errors[k] = @ \o v,
                    !.cleaned = [n \in DOMAIN fm.cleaned \ {k} |-> fm.cleaned[n]]]
    ELSE [fm EXCEPT !.errors[k] = @ \o v]

\* one round of the loop of _get_validation_exclusions
Excluded(fm, f) ==
    IF f.name \notin fm.fields THEN TRUE
    ELSE IF Truthy(fm.cls.fields) /\ ~InSeq(f.name, fm.cls.fields.names) THEN TRUE
    ELSE IF Truthy(fm.cls.exclude) /\ InSeq(f.name, fm.cls.exclude.names) THEN TRUE
    ELSE IF fm.errors[f.name] # <<>> THEN TRUE
    ELSE LET field_value == IF f.name \in DOMAIN fm.cleaned THEN fm.cleaned[f.name] ELSE PyNone
             empty == IF f.kind = "file" /\ f.name \in DOMAIN fm.cleaned
                      THEN field_value = NoUpload
                      ELSE field_value \in EMPTY_VALUES
         IN  ~f.required /\ empty

\* _get_validation_exclusions: the names excluded (the code's list, as a set)
GetValidationExclusions(fm) ==
    LET schema == SchemaOf(fm.instance.document)
    IN  {schema[i].name : i \in {j \in DOMAIN schema : schema[j].name \in fm.instance.active /\ Excluded(fm, schema[j])}}

\* f.validate(value): a string longer than the field allows is refused
SchemaValid(f, instance) ==
    f.kind = "string" /\ instance.attrs[f.name] # PyNone => Len(instance.attrs[f.name]) <= StringLimit(f)

\* value == '' for the instance's value of f
IsEmptyString(f, instance) == f.kind = "string" /\ instance.attrs[f.name] = EmptyString

\* lines 324-336: the loop inside try; the first failure leaves the loop
RECURSIVE CleanLoop(_, _, _, _)
CleanLoop(fs, instance, exclude, to_delete) ==
    IF fs = <<>> THEN [to_delete |-> to_delete, failed |-> <<>>]
    ELSE LET f == Head(fs)
         IN  IF f.name \notin exclude
             THEN IF SchemaValid(f, instance)
                  THEN CleanLoop(Tail(fs), instance, exclude, to_delete)
                  ELSE [to_delete |-> to_delete, failed |-> <<f.name>>]
             ELSE IF IsEmptyString(f, instance)
                  THEN CleanLoop(Tail(fs), instance, exclude, Append(to_delete, f.name))
                  ELSE CleanLoop(Tail(fs), instance, exclude, to_delete)

\* instance.clean(): the Doc class has a hook refusing a nick equal to the
\* name; the embedded class has none
CleanHookFails(instance) ==
    instance.document = "Doc" /\ instance.attrs["name"] # PyNone /\ instance.attrs["name"] = instance.attrs["nick"]

\* lines 366-373: the stored records sharing the value, the instance's own
\* record left out when it has an identity. While self.instance is still the
\* document class, self.instance.__class__ is its metaclass, which has no
\* objects: line 369 raises AttributeError
Matches(instance, n, st) ==
    IF instance.isclass
    THEN [raised |-> TRUE, records |-> {}]
    ELSE [raised |-> FALSE,
          records |-> {r \in st : r.attrs[n] = instance.attrs[n] /\ (instance.pk # 0 => r.pk # instance.pk)}]

\* lines 365-381: one round of the loop of validate_unique
UniqueStep(f, exclude, st, acc) ==
    IF f.unique /\ f.name \notin exclude
    THEN With(Matches(acc.form.instance, f.name, st),
              LAMBDA qs :
                 IF qs.raised THEN [acc EXCEPT !.raised = TRUE]
                 ELSE IF qs.records # {}
                 THEN [acc EXCEPT !.form = UpdateErrors(acc.form, f.name, <<"exists">>),
                                  !.errors = Append(acc.errors, f.name)]
                 ELSE acc)
    ELSE acc

\* lines 364-381: the loop of validate_unique over the schema, left by the
\* AttributeError of line 369
RECURSIVE UniqueLoop(_, _, _, _)
UniqueLoop(fs, exclude, st, acc) ==
    IF fs = <<>> \/ acc.raised THEN acc
    ELSE With(UniqueStep(Head(fs), exclude, st, acc),
              LAMBDA acc2 : UniqueLoop(Tail(fs), exclude, st, acc2))

\* the order in which the plain dict of line 94 (python 2.7) lists the
\* fields of Doc left in it, by the names _delete_before_save took out;
\* _post_clean schedules string fields only
DictOrder(removed) ==
    CASE removed = {} -> <<"nick", "tags", "photo", "id", "name">>
      [] removed = {"nick"} -> <<"photo", "tags", "id", "name">>
      [] removed = {"name"} -> <<"nick", "photo", "id", "tags">>
      [] removed = {"name", "nick"} -> <<"photo", "id", "tags">>

\* instance._fields.itervalues(): the document's fields in schema order; once
\* save_instance has put its own dict in their place (line 98), which stays
\* on the instance when instance.save() raised, that dict's fields in its
\* order
ActiveSchema(instance) ==
    IF ~instance.swapped
    THEN SchemaOf(instance.document)
    ELSE LET left == DictOrder(SchemaNames(instance.document) \ instance.active)
         IN  [i \in DOMAIN left |-> FieldByName(instance.document, left[i])]

\* validate_unique: the form after it, the errors it returns, and whether it
\* was left by the AttributeError of line 369
ValidateUnique(fm, st) ==
    With(GetValidationExclusions(fm),
         LAMBDA exclude :
            UniqueLoop(ActiveSchema(fm.instance), exclude, st,
                       [form |-> [fm EXCEPT !.uexclude = exclude, !.ran_unique = TRUE],
                        errors |-> <<>>, raised |-> FALSE]))

\* lines 320-344: the schema validation of the fields and the deferred
\* deletions
CleanInstanceFields(fm1) ==
    With(GetValidationExclusions(fm1),
         LAMBDA exclude :
            With(CleanLoop(ActiveSchema(fm1.instance), fm1.instance, exclude, <<>>),
                 LAMBDA loop :
                    With(IF loop.failed # <<>> THEN UpdateErrors(fm1, loop.failed[1], <<"invalid">>) ELSE fm1,
                         LAMBDA fm2 : [fm2 EXCEPT !.has_dbs = TRUE, !.dbs = loop.to_delete, !.pexclude = exclude])))

\* lines 347-351: the instance's clean hook
CleanInstance(fm3) ==
    IF CleanHookFails(fm3.instance) THEN UpdateErrors(fm3, NON_FIELD_ERRORS, <<"clean">>) ELSE fm3

\* lines 354-355: the instance was constructed at line 318, so the query of
\* validate_unique does not raise here
UniqueIfNeeded(fm4, st) ==
    IF fm4.validate_unique THEN ValidateUnique(fm4, st).form ELSE fm4

\* line 125 put the instance's own GridFSProxy objects in the initial data
\* of a form that was given its instance: what line 68 replaces in such an
\* object shows in form.initial too
AliasInitial(fm, instance) ==
    IF fm.own
    THEN [fm EXCEPT !.initial = [n \in DOMAIN @ |-> IF n \in FileNames THEN instance.files[n] ELSE @[n]]]
    ELSE fm

\* line 318 left by the AttributeError of construct_instance: self.instance
\* is not assigned; an instance the form was given has its plain fields set
PostCleanRaised(fm0, c) ==
    [form |-> IF fm0.instance.isclass THEN fm0 ELSE AliasInitial([fm0 EXCEPT !.instance = c.instance], c.instance),
     blobs |-> c.blobs, log |-> c.log, raised |-> TRUE]

\* _post_clean: the form and the blob store after it; raised is the
\* AttributeError out of line 318, which nothing catches
PostClean(fm0, st, bl) ==
    With(ConstructInstance(fm0.cleaned, fm0.instance, fm0.cls.fields, fm0.cls.exclude, bl),
         LAMBDA c :
            IF c.raised THEN PostCleanRaised(fm0, c)
            ELSE With(CleanInstanceFields(AliasInitial([fm0 EXCEPT !.instance = c.instance], c.instance)),
                      LAMBDA fm3 :
                         With(CleanInstance(fm3),
                              LAMBDA fm4 :
                                 With(UniqueIfNeeded(fm4, st),
                                      LAMBDA fm5 : [form |-> fm5, blobs |-> c.blobs, log |-> c.log,
                                                    raised |-> FALSE]))))

\* has_changed(): some submitted value differs from the initial one
HasChanged(fm) ==
    \/ \E n \in fm.fields \cap StringNames : fm.data[n] # Shown(InitialValue(fm, n))
    \/ "photo" \in fm.fields /\ fm.upload # PyNone
    \/ fm.del

\* the end of full_clean after _post_clean returned: the form layer that
\* does not keep cleaned_data deletes it when errors were found, which is
\* what line 545 tests for
DropCleaned(fm) ==
    IF ~fm.keeps /\ HasErrors(fm) THEN [fm EXCEPT !.has_cleaned = FALSE, !.cleaned = <<>>] ELSE fm

\* full_clean of the form layer: field cleaning, clean(), _post_clean; a form
\* that may stay empty and was not changed is left with empty cleaned data;
\* the AttributeError out of _post_clean ends it, cleaned_data still there
FullClean(fm, st, bl) ==
    IF fm.empty_permitted /\ ~HasChanged(fm)
    THEN [form |-> [fm EXCEPT !.pc = "validated", !.has_cleaned = TRUE, !.cleaned = <<>>, !.errors = NoErrors],
          blobs |-> bl, log |-> <<>>, raised |-> FALSE]
    ELSE With(CleanFields(fm),
              LAMBDA fm1 :
                 With(Clean(fm1),
                      LAMBDA fm2 :
                         With(PostClean(fm2, st, bl),
                              LAMBDA r : IF r.raised
                                         THEN [r EXCEPT !.form.pc = "failed", !.form.outcome = "AttributeError"]
                                         ELSE [r EXCEPT !.form = [DropCleaned(@) EXCEPT !.pc = "validated"]])))

----------------------------------------------------------------------------
(* The document store *)

MaxPk(st) == IF st = {} THEN 0 ELSE SetMax({r.pk : r \in st})

\* instance.save() validates first: a required active string field without
\* a value, or a string longer than its field allows, makes it raise
PersistFails(instance) ==
    \E i \in DOMAIN SchemaOf(instance.document) :
        LET f == SchemaOf(instance.document)[i]
        IN  /\ f.name \in instance.active
            /\ f.kind = "string"
            /\ \/ f.required /\ instance.attrs[f.name] = PyNone
               \/ ~SchemaValid(f, instance)

\* instance.save(): the active fields are written under the instance's
\* identity, a new one when it has none; a field that is not active keeps
\* what the store holds for it
Persist(instance, st) ==
    LET pk == IF instance.pk = 0 THEN MaxPk(st) + 1 ELSE instance.pk
        old == {r \in st : r.pk = pk}
        prev == IF old = {} THEN [attrs |-> [n \in StringNames |-> PyNone], files |-> [n \in FileNames |-> NoFile]]
                ELSE CHOOSE r \in old : TRUE
        rec == [pk |-> pk,
                attrs |-> [n \in StringNames |-> IF n \in instance.active THEN instance.attrs[n] ELSE prev.attrs[n]],
                files |-> [n \in FileNames |-> IF n \in instance.active THEN instance.files[n] ELSE prev.files[n]],
                items |-> instance.items]
    IN  [instance |-> [instance EXCEPT !.pk = pk, !.changed = {}], store |-> (st \ old) \cup {rec}]

\* hasattr(instance, 'save'): an embedded document has no save of its own
HasSave(instance) == instance.document = "Doc"

\* hasattr(instance, 'delete')
HasDelete(instance) == instance.document = "Doc"

\* instance.delete(): the record with the instance's identity is removed
Delete(instance, st) == {r \in st : r.pk # instance.pk}

----------------------------------------------------------------------------
(* save_instance and the save methods *)

\* lines 86-88: the data did not validate
SaveGuard(fm) == HasErrors(fm)

\* lines 99 and 102: instance.save(), which may raise
TrySave(instance, st) ==
    IF PersistFails(instance)
    THEN [instance |-> instance, store |-> st, outcome |-> "SaveError", made |-> 1]
    ELSE With(Persist(instance, st),
              LAMBDA p : [instance |-> p.instance, store |-> p.store, outcome |-> "returned", made |-> 1])

\* lines 90-102: commit; made counts the calls of instance.save()
CommitInstance(fm, instance, st) ==
    IF fm.has_dbs
    THEN IF \E i \in DOMAIN fm.dbs : fm.dbs[i] \notin instance.changed
         THEN [instance |-> instance, store |-> st, outcome |-> "RemoveError", made |-> 0]
         ELSE With(TrySave([instance EXCEPT !.changed = @ \ Range(fm.dbs), !.active = @ \ Range(fm.dbs),
                                            !.swapped = TRUE], st),
                   LAMBDA r : IF r.outcome = "returned"
                              THEN [r EXCEPT !.instance.active = instance.active, !.instance.swapped = FALSE]
                              ELSE r)
    ELSE TrySave(instance, st)

\* line 85 binds the constructed instance to the local name only: a form
\* whose instance is still the class keeps the class, any other form's
\* instance is the object construct_instance worked on
Rebound(fm, instance) ==
    IF fm.instance.isclass THEN fm ELSE [AliasInitial(fm, instance) EXCEPT !.instance = instance]

\* lines 85-104, construct_instance having been called
AfterConstruct(fm, c, commit, st) ==
    IF c.raised
    THEN [form |-> [Rebound(fm, c.instance) EXCEPT !.outcome = "AttributeError"],
          store |-> st, blobs |-> c.blobs, log |-> c.log, made |-> 0]
    ELSE IF SaveGuard(fm)
    THEN [form |-> [Rebound(fm, c.instance) EXCEPT !.outcome = "ValueError"],
          store |-> st, blobs |-> c.blobs, log |-> c.log, made |-> 0]
    ELSE IF commit /\ HasSave(c.instance)
    THEN With(CommitInstance(fm, c.instance, st),
              LAMBDA r : [form |-> [Rebound(fm, r.instance) EXCEPT !.outcome = r.outcome],
                          store |-> r.store, blobs |-> c.blobs, log |-> c.log, made |-> r.made])
    ELSE [form |-> [Rebound(fm, c.instance) EXCEPT !.outcome = "returned"],
          store |-> st, blobs |-> c.blobs, log |-> c.log, made |-> 0]

\* save_instance(form, instance, fields, fail_message, commit): line 85
\* calls construct_instance, whose line 40 raises AttributeError when the
\* form has no cleaned_data, before anything is looked at
SaveInstance(fm, fields, commit, st, bl) ==
    IF ~fm.has_cleaned
    THEN [form |-> [fm EXCEPT !.outcome = "AttributeError"],
          store |-> st, blobs |-> bl, log |-> <<>>, made |-> 0]
    ELSE With(ConstructInstance(fm.cleaned, fm.instance, fields, NoList, bl),
              LAMBDA c : AfterConstruct(fm, c, commit, st))

\* BaseDocumentForm.save
FormSave(fm, commit, st, bl) == SaveInstance(fm, fm.cls.fields, commit, st, bl)

\* EmbeddedDocumentForm.save that also saves the embedded instance
EmbeddedSaveTwice(fm, commit, st) ==
    [form |-> [fm EXCEPT !.outcome = "returned"], store |-> st, made |-> 1,
     parent_made |-> IF commit THEN 1 ELSE 0]

\* lines 455-458 with the parent's collection already appended to
SaveParent(fm, parent, st) ==
    IF PersistFails(parent)
    THEN [form |-> [fm EXCEPT !.parent = parent, !.outcome = "SaveError"],
          store |-> st, made |-> 0, parent_made |-> 1]
    ELSE With(Persist(parent, st),
              LAMBDA p : [form |-> [fm EXCEPT !.parent = p.instance, !.outcome = "returned"],
                          store |-> p.store, made |-> 0, parent_made |-> 1])

\* EmbeddedDocumentForm.save: parent_made counts the calls of
\* parent_document.save(), made those of the embedded instance's; the
\* setattr of line 457 marks the embedded field as changed on the parent
EmbeddedSave(fm, commit, st) ==
    IF HasErrors(fm)
    THEN [form |-> [fm EXCEPT !.outcome = "ValueError"], store |-> st, made |-> 0, parent_made |-> 0]
    ELSE IF commit
    THEN SaveParent(fm, [fm.parent EXCEPT !.items = Append(@, fm.instance.attrs),
                                          !.changed = @ \cup {fm.cls.embedded_field}], st)
    ELSE [form |-> [fm EXCEPT !.outcome = "returned"], store |-> st, made |-> 0, parent_made |-> 0]

----------------------------------------------------------------------------
(* Form classes and the construction of a form *)

\* the classes of forms the submissions use: Meta of a DocumentForm or of an
\* EmbeddedDocumentForm
FormClass(k, d, fl, ex, ef) ==
    [kind |-> k, document |-> d, fields |-> fl, exclude |-> ex, embedded_field |-> ef]

PlainForm == FormClass("document", "Doc", NoList, NoList, "")
NamePhotoForm == FormClass("document", "Doc", SomeList(<<"name", "photo">>), NoList, "")
NoNickForm == FormClass("document", "Doc", NoList, SomeList(<<"nick">>), "")
NickPhotoForm == FormClass("document", "Doc", SomeList(<<"nick", "photo">>), NoList, "")
EmbeddedForm == FormClass("embedded", "Emb", NoList, NoList, "tags")
MisplacedForm == FormClass("embedded", "Emb", NoList, NoList, "bogus")
\* the form without the file field, which the formsets use too
RowForm == FormClass("document", "Doc", SomeList(<<"name", "nick">>), NoList, "")
EmbRowForm == FormClass("document", "Emb", NoList, NoList, "")

SingleFormClasses == {PlainForm, NamePhotoForm, NoNickForm, NickPhotoForm, RowForm, EmbeddedForm, MisplacedForm}

\* self.fields: the names of base_fields, as the metaclass made them
FormFieldsOf(cl) ==
    Range(Keys(NewClass([document |-> cl.document, fields |-> cl.fields, exclude |-> cl.exclude,
                         declared |-> <<>>, widgets |-> {}, callback |-> "none", cbskip |-> {}]).base_fields))

\* lines 120-123: the fields document_to_dict does not go past
InDict(f, fields, exclude) ==
    /\ ~(Truthy(fields) /\ ~InSeq(f.name, fields.names))
    /\ ~(Truthy(exclude) /\ InSeq(f.name, exclude.names))

\* document_to_dict: the value of every field of the instance, whatever its
\* type, within the allow-list and outside the deny-list
DocumentToDict(instance, fields, exclude) ==
    LET kept == SelectSeq(ActiveSchema(instance), LAMBDA f : InDict(f, fields, exclude))
    IN  [n \in {kept[i].name : i \in DOMAIN kept} |-> GetAttr(instance, FieldByName(instance.document, n))]

\* the form layers the program may run on: the one that keeps cleaned_data
\* when validation found errors and the one that deletes it (the layer the
\* test of line 545 is written for)
Layers == {"keeps", "deletes"}

\* own: the file values of initial are the GridFSProxy objects of the form's
\* own instance (line 125 puts the objects themselves in the dict); keeps:
\* the form layer keeps cleaned_data when validation found errors
NoForm ==
    [pc |-> "none", cls |-> PlainForm, fields |-> {}, data |-> [n \in StringNames |-> EmptyString],
     upload |-> PyNone, del |-> FALSE, empty_permitted |-> FALSE,
     initial |-> <<>>,
     instance |-> ClassInstance("Doc"), parent |-> ClassInstance("Doc"),
     has_cleaned |-> FALSE, cleaned |-> <<>>, errors |-> NoErrors,
     validate_unique |-> FALSE, has_dbs |-> FALSE, dbs |-> <<>>,
     pexclude |-> {}, uexclude |-> {}, ran_unique |-> FALSE,
     own |-> FALSE, keeps |-> TRUE,
     commit |-> FALSE, outcome |-> "none"]

\* the form as the form layer l runs it
OnLayer(fm, l) == [fm EXCEPT !.keeps = (l = "keeps")]

\* BaseDocumentForm.__init__ (given is FALSE when instance is None)
NewForm(cl, given, inst, data, upload) ==
    LET object_data == IF given THEN DocumentToDict(inst, cl.fields, cl.exclude) ELSE <<>>
    IN  [NoForm EXCEPT !.pc = "bound", !.cls = cl, !.fields = FormFieldsOf(cl),
                       !.data = data, !.upload = upload,
                       !.initial = object_data, !.own = given,
                       !.instance = IF given THEN inst ELSE ClassInstance(cl.document),
                       !.validate_unique = FALSE]

\* EmbeddedDocumentForm.__init__: the parent must have the embedded field
NewEmbeddedForm(cl, parent, data) ==
    LET fm == [NewForm(cl, FALSE, ClassInstance(cl.document), data, PyNone) EXCEPT !.parent = parent]
    IN  IF cl.embedded_field \notin SchemaNames(parent.document)
        THEN [fm EXCEPT !.pc = "done", !.outcome = "FieldError"]
        ELSE fm

----------------------------------------------------------------------------
(* The submissions: one form at a time against the two stores *)

\* what a client may submit for a text field and as a file
DataValues == {<<>>, <<"a">>, <<"b">>, <<"z", "z">>}
Uploads == {PyNone, <<"a", ".", "t">>, <<"a", "_", "1", ".", "t">>}

\* the submitted data of a form of class cl: values for its own fields only
InputsOf(cl) ==
    {d \in [StringNames -> DataValues] : \A n \in StringNames \ FormFieldsOf(cl) : d[n] = EmptyString}
UploadsOf(cl) == IF "photo" \in FormFieldsOf(cl) THEN Uploads ELSE {PyNone}

NoBlobs == [files |-> {}, next |-> 1]

\* what a construction leaves: the instance's attributes, the names its file
\* fields are stored under, and the names the blob store holds
Built(instance, bl) ==
    [attrs |-> instance.attrs,
     filenames |-> [n \in FileNames |-> instance.files[n].filename],
     stored |-> {b.filename : b \in bl.files}]

NotBuilt == Built(NewInstance("Doc"), NoBlobs)

\* the persistence calls of the current submission, the stores as they were
\* when it began, and what the construction of the post-clean pass left
FreshCalls(st, bl) ==
    [docSaves |-> 0, parentSaves |-> 0, blobPuts |-> 0, deletes |-> 0, log |-> <<>>,
     store0 |-> st, files0 |-> bl.files, built |-> NotBuilt]

IdleConfig ==
    [document |-> "Doc", fields |-> NoList, exclude |-> NoList, declared |-> <<>>,
     widgets |-> {}, callback |-> "none", cbskip |-> {}]

\* no formset bound: forms are the sub-forms, saved the returned list (the
\* index of the sub-form with its instance), deleted the indices of the
\* sub-forms whose instance had delete() called
NoFormSet ==
    [pc |-> "none", cls |-> PlainForm, can_delete |-> FALSE, queryset |-> <<>>,
     forms |-> <<>>, initial_count |-> 0, commit |-> FALSE,
     unique_errors |-> <<>>, raised |-> FALSE, saved |-> <<>>, deleted |-> <<>>,
     outcome |-> "none"]

Init ==
    /\ cfg = IdleConfig
    /\ cls = Pending
    /\ store = {}
    /\ blobs = NoBlobs
    /\ form = NoForm
    /\ calls = FreshCalls({}, NoBlobs)
    /\ nsub = 0
    /\ fset = NoFormSet
    /\ layer \in Layers

\* a request binds a DocumentForm to submitted data, for a new document or
\* for a stored one
BindForm ==
    /\ nsub < MaxSubmissions
    /\ form.pc \in {"none", "validated", "failed", "done"}
    /\ \E cl \in {c \in SingleFormClasses : c.kind = "document"}, given \in BOOLEAN :
         \E inst \in (IF given THEN {Loaded(r) : r \in store} ELSE {ClassInstance(cl.document)}),
            data \in InputsOf(cl), upload \in UploadsOf(cl) :
              form' = OnLayer(NewForm(cl, given, inst, data, upload), layer)
    /\ calls' = FreshCalls(store, blobs)
    /\ nsub' = nsub + 1
    /\ UNCHANGED <<cfg, cls, store, blobs, fset, layer>>

\* a request binds an EmbeddedDocumentForm for a stored parent document
BindEmbedded ==
    /\ nsub < MaxSubmissions
    /\ form.pc \in {"none", "validated", "failed", "done"}
    /\ \E cl \in {c \in SingleFormClasses : c.kind = "embedded"}, r \in store :
         \E data \in InputsOf(cl) :
            form' = OnLayer(NewEmbeddedForm(cl, Loaded(r), data), layer)
    /\ calls' = FreshCalls(store, blobs)
    /\ nsub' = nsub + 1
    /\ UNCHANGED <<cfg, cls, store, blobs, fset, layer>>

\* is_valid() / errors: the validation of the bound form
Validate ==
    /\ form.pc = "bound"
    /\ \E r \in {FullClean(form, store, blobs)} :
           /\ form' = r.form
           /\ blobs' = r.blobs
           /\ calls' = [calls EXCEPT !.blobPuts = @ + Len(r.log), !.log = @ \o r.log,
                                     !.built = Built(r.form.instance, r.blobs)]
    /\ UNCHANGED <<cfg, cls, store, nsub, fset, layer>>

\* form.save(commit) of a DocumentForm
Save ==
    /\ form.pc = "validated"
    /\ form.cls.kind = "document"
    /\ \E commit \in BOOLEAN :
         \E r \in {FormSave(form, commit, store, blobs)} :
             /\ form' = [r.form EXCEPT !.pc = "done", !.commit = commit]
             /\ store' = r.store
             /\ blobs' = r.blobs
             /\ calls' = [calls EXCEPT !.docSaves = @ + r.made, !.blobPuts = @ + Len(r.log), !.log = @ \o r.log]
    /\ UNCHANGED <<cfg, cls, nsub, fset, layer>>

\* form.save(commit) of an EmbeddedDocumentForm
SaveEmbedded ==
    /\ form.pc = "validated"
    /\ form.cls.kind = "embedded"
    /\ \E commit \in BOOLEAN :
         \E r \in {EmbeddedSave(form, commit, store)} :
             /\ form' = [r.form EXCEPT !.pc = "done", !.commit = commit]
             /\ store' = r.store
             /\ calls' = [calls EXCEPT !.docSaves = @ + r.made, !.parentSaves = @ + r.parent_made]
    /\ UNCHANGED <<cfg, cls, blobs, nsub, fset, layer>>

Next == BindForm \/ BindEmbedded \/ Validate \/ Save \/ SaveEmbedded

Spec == Init /\ [][Next]_vars

----------------------------------------------------------------------------
(* The definition of a form class, for every configuration *)

InitMeta ==
    /\ cfg \in Configs
    /\ cls = Pending
    /\ store = {}
    /\ blobs = NoBlobs
    /\ form = NoForm
    /\ calls = FreshCalls({}, NoBlobs)
    /\ nsub = 0
    /\ fset = NoFormSet
    /\ layer = "keeps"

\* the class statement runs the metaclass
DefineClass ==
    /\ cls.status = "pending"
    /\ cls' = NewClass(cfg)
    /\ UNCHANGED <<cfg, store, blobs, form, calls, nsub, fset, layer>>

NextMeta == DefineClass

SpecMeta == InitMeta /\ [][NextMeta]_vars

----------------------------------------------------------------------------
(* The formset: BaseDocumentFormSet over a queryset *)

\* BaseDocumentForm.__init__ as the formset calls it: no instance is passed
\* (the lines of _construct_form that did are commented out), the initial
\* data is the dict of the queryset's document
NewSubForm(cl, initial, data, del, empty_permitted) ==
    [NewForm(cl, FALSE, ClassInstance(cl.document), data, PyNone)
        EXCEPT !.initial = initial, !.del = del, !.empty_permitted = empty_permitted]

\* construct_initial: document_to_dict of every document of the queryset
ConstructInitial(queryset) == [i \in DOMAIN queryset |-> DocumentToDict(queryset[i], NoList, NoList)]

\* the sub-forms of a bound formset: the first initial_count are the initial
\* forms, the others may stay empty
ConstructForms(cl, queryset, initial_count, rows) ==
    LET initial == ConstructInitial(queryset)
    IN  [i \in DOMAIN rows |->
            NewSubForm(cl, IF i \in DOMAIN initial THEN initial[i] ELSE <<>>,
                       rows[i].data, rows[i].del, i > initial_count)]

\* BaseDocumentFormSet.__init__: the initial data is made of the queryset and
\* the form layer builds the sub-forms; initial_count is initial_form_count()
NewFormSet(cl, can_delete, queryset, initial_count, rows) ==
    [NoFormSet EXCEPT !.pc = "bound", !.cls = cl, !.can_delete = can_delete,
                      !.queryset = queryset, !.initial_count = initial_count,
                      !.forms = ConstructForms(cl, queryset, initial_count, rows)]

\* the formset's sub-forms as the form layer l runs them
FormSetOnLayer(fs, l) == [fs EXCEPT !.forms = [i \in DOMAIN @ |-> OnLayer(@[i], l)]]

\* the constructor was left by an AttributeError: there is no formset
NoInlineFormSet == [NoFormSet EXCEPT !.pc = "failed", !.outcome = "AttributeError"]

\* BaseInlineDocumentFormSet.__init__ with its initial_form_count and
\* _construct_form. Without a queryset line 621 asks the class for a
\* document it does not have; the filter of line 624 fails for want of
\* self.fk (or of a filter method) and the queryset is taken as it is;
\* saving as new, every sub-form is an extra one and the first one built
\* asks at line 642 for a _pk_field nothing sets
NewInlineFormSet(cl, can_delete, given, queryset, save_as_new, rows) ==
    IF ~given THEN NoInlineFormSet
    ELSE IF save_as_new
    THEN IF Len(rows) > 0 THEN NoInlineFormSet
         ELSE NewFormSet(cl, can_delete, queryset, 0, rows)
    ELSE NewFormSet(cl, can_delete, queryset, Len(queryset), rows)

\* the form layer's formset full_clean, first part: the errors of every
\* sub-form, which validates it; failed is the AttributeError a sub-form's
\* full_clean was left by, the sub-forms after it are not looked at
RECURSIVE CleanForms(_, _, _)
CleanForms(forms, st, acc) ==
    IF forms = <<>> THEN acc
    ELSE IF acc.failed THEN [acc EXCEPT !.forms = @ \o forms]
    ELSE With(FullClean(Head(forms), st, acc.blobs),
              LAMBDA r : CleanForms(Tail(forms), st,
                                    [forms |-> Append(acc.forms, r.form), blobs |-> r.blobs,
                                     log |-> acc.log \o r.log, failed |-> r.raised]))

\* lines 544-547: one round of the loop of the formset's validate_unique;
\* failed is the AttributeError the sub-form's validate_unique was left by
FormSetUniqueStep(fm, st, acc) ==
    IF ~fm.has_cleaned THEN [acc EXCEPT !.forms = Append(@, fm)]
    ELSE With(ValidateUnique(fm, st),
              LAMBDA r : [forms |-> Append(acc.forms, r.form), errors |-> acc.errors \o r.errors,
                          failed |-> r.raised])

\* lines 543-547: the errors of the sub-forms' validate_unique, added up; an
\* AttributeError leaves the loop, the sub-forms after it are not looked at
RECURSIVE FormSetUniqueLoop(_, _, _)
FormSetUniqueLoop(forms, st, acc) ==
    IF forms = <<>> THEN acc
    ELSE IF acc.failed THEN [acc EXCEPT !.forms = @ \o forms]
    ELSE With(FormSetUniqueStep(Head(forms), st, acc),
              LAMBDA acc2 : FormSetUniqueLoop(Tail(forms), st, acc2))

\* BaseDocumentFormSet.validate_unique, called by clean: raised is the
\* ValidationError of line 550, failed the AttributeError out of line 547
FormSetValidateUnique(forms, st) ==
    With(FormSetUniqueLoop(forms, st, [forms |-> <<>>, errors |-> <<>>, failed |-> FALSE]),
         LAMBDA r : [forms |-> r.forms, errors |-> r.errors,
                     raised |-> ~r.failed /\ r.errors # <<>>, failed |-> r.failed])

\* the formset's full_clean: every sub-form is validated, then clean() runs;
\* an AttributeError out of clean() is not caught and ends the validation
FormSetFullClean(fs, st, bl) ==
    With(CleanForms(fs.forms, st, [forms |-> <<>>, blobs |-> bl, log |-> <<>>, failed |-> FALSE]),
         LAMBDA c :
            IF c.failed
            THEN [fset |-> [fs EXCEPT !.pc = "failed", !.outcome = "AttributeError", !.forms = c.forms],
                  blobs |-> c.blobs, log |-> c.log]
            ELSE With(FormSetValidateUnique(c.forms, st),
                      LAMBDA u : [fset |-> [fs EXCEPT !.pc = IF u.failed THEN "failed" ELSE "validated",
                                                      !.outcome = IF u.failed THEN "AttributeError" ELSE @,
                                                      !.forms = u.forms,
                                                      !.unique_errors = u.errors, !.raised = u.raised],
                                  blobs |-> c.blobs, log |-> c.log]))

\* the form layer's is_valid of a formset: the sub-forms marked for deletion
\* are not looked at, clean() must not have raised
IsValid(fs) ==
    /\ \A i \in DOMAIN fs.forms : (fs.can_delete /\ fs.forms[i].del) \/ ~HasErrors(fs.forms[i])
    /\ ~fs.raised

\* line 525: the sub-forms save goes past
SkippedForm(fs, i) == ~HasChanged(fs.forms[i]) /\ i > fs.initial_count

\* lines 514-516: what save_object returns for form fm, r being what its
\* save(commit=False) left: the form's instance, or, for a form whose
\* instance is still the class, the instance line 85 constructed
SavedObject(fm, r, bl) ==
    IF r.form.instance.isclass
    THEN ConstructInstance(fm.cleaned, fm.instance, fm.cls.fields, NoList, bl).instance
    ELSE r.form.instance

\* lines 528-536 for the instance save_object returned: without a DELETE
\* field the lookup in cleaned_data fails
AfterSaveObject(fs, i, r, acc) ==
    LET obj == SavedObject(acc.forms[i], r, acc.blobs)
        forms == [acc.forms EXCEPT ![i] = r.form]
        entry == [index |-> i, obj |-> obj]
        done == [acc EXCEPT !.forms = forms, !.blobs = r.blobs, !.log = @ \o r.log]
    IN  IF ~fs.can_delete THEN [done EXCEPT !.outcome = "KeyError"]
        ELSE IF fs.forms[i].del
        THEN IF HasDelete(obj)
             THEN [done EXCEPT !.store = Delete(obj, @), !.deleted = Append(@, i),
                               !.saved = Append(@, entry)]
             ELSE done
        ELSE [done EXCEPT !.saved = Append(@, entry)]

\* lines 524-536: one round of the loop of save; save_object is
\* form.save(commit=False), whose ValueError leaves the loop
FormSetSaveStep(fs, i, acc) ==
    IF SkippedForm(fs, i) THEN acc
    ELSE With(FormSave(acc.forms[i], FALSE, acc.store, acc.blobs),
              LAMBDA r :
                 IF r.form.outcome # "returned"
                 THEN [acc EXCEPT !.forms[i] = r.form, !.blobs = r.blobs, !.log = @ \o r.log,
                                  !.outcome = r.form.outcome]
                 ELSE AfterSaveObject(fs, i, r, acc))

\* lines 523-537: the loop over the sub-forms, from sub-form i on
RECURSIVE FormSetSaveLoop(_, _, _)
FormSetSaveLoop(fs, i, acc) ==
    IF i > Len(fs.forms) THEN [acc EXCEPT !.outcome = "returned"]
    ELSE With(FormSetSaveStep(fs, i, acc),
              LAMBDA acc2 : IF acc2.outcome # "running" THEN acc2 ELSE FormSetSaveLoop(fs, i + 1, acc2))

\* BaseDocumentFormSet.save(commit): commit is not looked at
FormSetSave(fs, commit, st, bl) ==
    FormSetSaveLoop(fs, 1,
                    [forms |-> fs.forms, store |-> st, blobs |-> bl, log |-> <<>>,
                     saved |-> <<>>, deleted |-> <<>>, outcome |-> "running"])

\* the stores the formsets work on: the records earlier submissions saved
Stored(st, name, nick) ==
    Persist([NewInstance("Doc") EXCEPT !.attrs = [n \in StringNames |-> IF n = "name" THEN name ELSE nick]], st).store

SeedStores ==
    { {},
      Stored({}, <<"a">>, PyNone),
      Stored(Stored({}, <<"a">>, PyNone), <<"b">>, <<"a">>) }

\* the records of a store by ascending identity
RECURSIVE ByPk(_)
ByPk(st) ==
    IF st = {} THEN <<>>
    ELSE LET last == CHOOSE r \in st : r.pk = MaxPk(st) IN Append(ByPk(st \ {last}), last)

\* an embedded document as a queryset holds it
EmbeddedDoc(name) == [NewInstance("Emb") EXCEPT !.attrs = [n \in StringNames |-> IF n = "name" THEN name ELSE PyNone]]

\* the querysets a formset of class cl is built over: the documents of the
\* store, all or the first ones, or a list of embedded documents
QuerySets(cl, st) ==
    IF cl.document = "Doc"
    THEN {[i \in 1..k |-> Loaded(ByPk(st)[i])] : k \in 0..Cardinality(st)}
    ELSE {<<>>, <<EmbeddedDoc(<<"a">>)>>}

\* what a client may submit in one row of a formset
RowData ==
    {d \in [StringNames -> DataValues] : d["name"] \in {<<>>, <<"a">>, <<"b">>} /\ d["nick"] \in {<<>>, <<"a">>}}
Rows(can_delete) == [data : RowData, del : IF can_delete THEN BOOLEAN ELSE {FALSE}]

FormSetClasses == {RowForm, EmbRowForm}

InitFormSet ==
    /\ cfg = IdleConfig
    /\ cls = Pending
    /\ store \in SeedStores
    /\ blobs = NoBlobs
    /\ form = NoForm
    /\ calls = FreshCalls(store, NoBlobs)
    /\ nsub = 0
    /\ fset = NoFormSet
    /\ layer \in Layers

\* a request binds a formset to submitted data: the management data carries
\* the number of initial forms the page was rendered with
BindFormSet ==
    /\ fset.pc = "none"
    /\ \E cl \in FormSetClasses, can_delete \in BOOLEAN :
         \E queryset \in {q \in QuerySets(cl, store) : Len(q) <= MaxForms} :
            \E total \in Len(queryset)..MaxForms :
               \E rows \in [1..total -> Rows(can_delete)] :
                  fset' = FormSetOnLayer(NewFormSet(cl, can_delete, queryset, Len(queryset), rows), layer)
    /\ calls' = FreshCalls(store, blobs)
    /\ nsub' = nsub + 1
    /\ UNCHANGED <<cfg, cls, store, blobs, form, layer>>

\* a request binds an inline formset, the class inlineformset_factory made,
\* for a parent document: with the queryset or without, editing or saving as
\* new
BindInlineFormSet ==
    /\ fset.pc = "none"
    /\ \E cl \in FormSetClasses, can_delete \in BOOLEAN, given \in BOOLEAN, save_as_new \in BOOLEAN :
         \E queryset \in {q \in QuerySets(cl, store) : Len(q) <= MaxForms} :
            \E total \in Len(queryset)..MaxForms :
               \E rows \in [1..total -> Rows(can_delete)] :
                  fset' = FormSetOnLayer(NewInlineFormSet(cl, can_delete, given, queryset, save_as_new, rows), layer)
    /\ calls' = FreshCalls(store, blobs)
    /\ nsub' = nsub + 1
    /\ UNCHANGED <<cfg, cls, store, blobs, form, layer>>

\* formset.is_valid(): the validation of the bound formset
ValidateFormSet ==
    /\ fset.pc = "bound"
    /\ \E r \in {FormSetFullClean(fset, store, blobs)} :
           /\ fset' = r.fset
           /\ blobs' = r.blobs
           /\ calls' = [calls EXCEPT !.blobPuts = @ + Len(r.log), !.log = @ \o r.log]
    /\ UNCHANGED <<cfg, cls, store, form, nsub, layer>>

\* formset.save(commit)
SaveFormSet ==
    /\ fset.pc = "validated"
    /\ \E commit \in BOOLEAN :
         \E r \in {FormSetSave(fset, commit, store, blobs)} :
             /\ fset' = [fset EXCEPT !.pc = "done", !.commit = commit, !.forms = r.forms,
                                     !.saved = r.saved, !.deleted = r.deleted, !.outcome = r.outcome]
             /\ store' = r.store
             /\ blobs' = r.blobs
             /\ calls' = [calls EXCEPT !.deletes = @ + Len(r.deleted), !.blobPuts = @ + Len(r.log),
                                       !.log = @ \o r.log]
    /\ UNCHANGED <<cfg, cls, form, nsub, layer>>

NextFormSet == BindFormSet \/ BindInlineFormSet \/ ValidateFormSet \/ SaveFormSet

SpecFormSet == InitFormSet /\ [][NextFormSet]_vars

----------------------------------------------------------------------------
(* Properties of the single form *)

\* the unique fields of a document class
UniqueNames(document) ==
    {SchemaOf(document)[i].name : i \in {j \in DOMAIN SchemaOf(document) : SchemaOf(document)[j].unique}}

\* another stored record holds the instance's value of field n
Conflicting(fm, n, st) ==
    \E r \in st : r.pk # fm.instance.pk /\ r.attrs[n] = fm.instance.attrs[n]

\* the names the validation of form fm leaves out of the uniqueness test:
\* those validate_unique worked with, or, when it was not reached, those of
\* _get_validation_exclusions
ValidationExcluded(fm) == IF fm.ran_unique THEN fm.uexclude ELSE GetValidationExclusions(fm)

\* C1: a bound DocumentForm that was validated and whose unique field n, not
\* excluded from validation, holds a value that another stored record has,
\* carries exactly one error on n; a save of it raises ValueError, calls no
\* instance.save() and leaves the document store as it was.
C1_UniqueConflictRejected ==
    form.pc \in {"validated", "failed", "done"} /\ form.cls.kind = "document" =>
        \A n \in UniqueNames(form.cls.document) :
            n \notin ValidationExcluded(form) /\ Conflicting(form, n, calls.store0) =>
                /\ Len(form.errors[n]) = 1
                /\ form.pc = "done" =>
                      /\ form.outcome = "ValueError"
                      /\ calls.docSaves = 0
                      /\ store = calls.store0

\* the instance carries the cleaned value of every field of the form
CarriesCleaned(fm) ==
    /\ \A n \in fm.fields \cap StringNames : n \in DOMAIN fm.cleaned /\ fm.instance.attrs[n] = fm.cleaned[n]
    /\ \A n \in fm.fields \cap FileNames : n \in DOMAIN fm.cleaned /\ fm.instance.files[n].grid_id # 0

\* C3: save(commit=False) of a DocumentForm that validated without errors
\* returns the instance carrying the cleaned values, and from the start of
\* the validation to the return neither the document store nor the blob
\* store was written.
C3_DryRunWritesNothing ==
    form.pc = "done" /\ form.cls.kind = "document" /\ ~form.commit /\ ~HasErrors(form) =>
        /\ form.outcome = "returned"
        /\ CarriesCleaned(form)
        /\ calls.docSaves = 0 /\ store = calls.store0
        /\ calls.blobPuts = 0 /\ blobs.files = calls.files0

\* the stored parent of an embedded form, as it was when the submission began
ParentBefore == CHOOSE r \in calls.store0 : r.pk = form.parent.pk

\* C6: EmbeddedDocumentForm.save. Without errors and committing, the parent's
\* collection is the stored one with the form's instance appended, the parent
\* was saved once and the embedded instance never; with errors it raises with
\* nothing touched; without commit the collection and the store are as before.
C6_EmbeddedSave ==
    form.pc = "done" /\ form.cls.kind = "embedded" /\ form.outcome # "FieldError" =>
        /\ calls.docSaves = 0
        /\ HasErrors(form) =>
              /\ form.outcome = "ValueError"
              /\ calls.parentSaves = 0
              /\ form.parent.items = ParentBefore.items
              /\ store = calls.store0
        /\ ~HasErrors(form) /\ form.commit =>
              /\ form.outcome = "returned"
              /\ calls.parentSaves = 1
              /\ form.parent.items = Append(ParentBefore.items, form.instance.attrs)
              /\ store = (calls.store0 \ {ParentBefore})
                           \cup {[ParentBefore EXCEPT !.items = Append(@, form.instance.attrs)]}
        /\ ~HasErrors(form) /\ ~form.commit =>
              /\ form.outcome = "returned"
              /\ calls.parentSaves = 0
              /\ form.parent.items = ParentBefore.items
              /\ store = calls.store0

\* C6 witness: an embedded instance was appended and the parent saved
C6_Witness ==
    /\ form.pc = "done" /\ form.cls.kind = "embedded" /\ form.commit
    /\ ~HasErrors(form) /\ form.outcome = "returned"
    /\ Len(form.parent.items) = Len(ParentBefore.items) + 1
    /\ calls.parentSaves = 1

\* the upload's name with the suffix _k before its extension
Suffixed(name, k) == SplitExt(name)[1] \o <<"_">> \o Digits(k) \o SplitExt(name)[2]

\* C9: every storage name chosen was absent from the blob store when it was
\* chosen; an upload whose name was free keeps it, one whose name was taken
\* gets the first suffix _k (k = 1, 2, ...) that is free; so no two stored
\* files share a name.
C9_CollisionFreeNames ==
    /\ \A i \in DOMAIN calls.log :
          LET e == calls.log[i]
          IN  /\ e.chosen \notin e.before
              /\ e.upload \notin e.before => e.chosen = e.upload
              /\ e.upload \in e.before =>
                    \E k \in 1..(Cardinality(e.before) + 1) :
                        /\ e.chosen = Suffixed(e.upload, k)
                        /\ \A j \in 1..(k - 1) : Suffixed(e.upload, j) \in e.before
    /\ \A b1, b2 \in blobs.files : b1.id # b2.id => b1.filename # b2.filename

\* C9 witness: a later upload of a name already stored, whose first suffix
\* was taken too, is stored under the second
C9_Witness ==
    \E i \in DOMAIN calls.log :
        /\ calls.log[i].upload \in calls.log[i].before
        /\ calls.log[i].chosen = Suffixed(calls.log[i].upload, 2)
        /\ \E b \in blobs.files : b.filename = calls.log[i].chosen

\* the schema fields of the form's instance
InstanceFields(fm) == Range(ActiveSchema(fm.instance))

\* C13: after the post-clean pass every schema field outside the exclusion
\* set whose value the schema validator refuses carries a field error, and
\* every excluded field whose value is the empty string is on the
\* deferred-deletion list, whether or not another field failed.
C13_PostCleanPass ==
    form.pc = "validated" /\ form.has_dbs =>
        \A f \in InstanceFields(form) :
            /\ f.name \notin form.pexclude /\ ~SchemaValid(f, form.instance) =>
                  InSeq("invalid", form.errors[f.name])
            /\ f.name \in form.pexclude /\ IsEmptyString(f, form.instance) =>
                  InSeq(f.name, form.dbs)

\* what the store held for field n of the instance when the submission began
StoredBefore(instance, n) ==
    IF \E r \in calls.store0 : r.pk = instance.pk
    THEN (CHOOSE r \in calls.store0 : r.pk = instance.pk).attrs[n]
    ELSE PyNone

\* C14: save(commit=True) of a validated form without errors does not fail
\* in removing the deferred-deletion fields, calls instance.save() exactly
\* once, and is left, by return or by a failure of instance.save(), with the
\* instance's active field set equal to the full schema; on return the
\* record was written without the deferred-deletion fields.
C14_SaveOrder ==
    form.pc = "done" /\ form.cls.kind = "document" /\ form.commit /\ ~HasErrors(form) =>
        /\ form.outcome \in {"returned", "SaveError"}
        /\ calls.docSaves = 1
        /\ form.instance.active = SchemaNames(form.cls.document)
        /\ form.outcome = "returned" =>
              \E r \in store :
                  /\ r.pk = form.instance.pk
                  /\ \A n \in Range(form.dbs) \cap StringNames : r.attrs[n] = StoredBefore(form.instance, n)

\* C15: the construction save makes again, after the post-clean pass made it
\* from the same cleaned data, leaves the instance's attributes, the names
\* its files are stored under and the names the blob store holds as the
\* post-clean construction left them.
C15_ConstructIdempotent ==
    form.pc = "done" /\ form.cls.kind = "document" /\ ~HasErrors(form) =>
        Built(form.instance, blobs) = calls.built

----------------------------------------------------------------------------
(* Properties of the formset *)

\* the indices of the sub-forms in the list save returned
SavedIndices == {fset.saved[k].index : k \in DOMAIN fset.saved}

\* the sub-forms save does not go past
Processed == {i \in DOMAIN fset.forms : ~SkippedForm(fset, i)}

\* sub-form i re-submits the document of the queryset as it is stored
Resubmitted(i) == i <= fset.initial_count /\ ~HasChanged(fset.forms[i])

\* the document of the queryset behind sub-form i is the only stored record
\* holding its value of field n
OnlyHolder(i, n) ==
    \A r \in store : r.attrs[n] = fset.queryset[i].attrs[n] => r.pk = fset.queryset[i].pk

\* C2: a stored record re-submitted unchanged is not flagged against itself:
\* on every unique field whose value only that record holds, the validated
\* sub-form carries no error.
C2_ResubmittedNotFlagged ==
    fset.pc \in {"validated", "failed", "done"} /\ fset.cls.document = "Doc" =>
        \A i \in DOMAIN fset.forms :
            Resubmitted(i) =>
                \A n \in UniqueNames("Doc") \cap fset.forms[i].fields :
                    OnlyHolder(i, n) => fset.forms[i].errors[n] = <<>>

\* every sub-form validated without errors and clean() did not raise
AllValid == ~fset.raised /\ \A i \in DOMAIN fset.forms : ~HasErrors(fset.forms[i])

\* C4: save of a formset whose sub-forms are all valid returns; every
\* processed sub-form with the deletion flag set is left out of the returned
\* list, and when its instance has a delete operation that was invoked.
C4_DeletedLeftOut ==
    fset.pc = "done" /\ AllValid =>
        \A i \in Processed :
            fset.forms[i].del =>
                /\ fset.outcome = "returned"
                /\ i \notin SavedIndices
                /\ HasDelete(fset.forms[i].instance) => InSeq(i, fset.deleted)

\* the store holds the instance under its identity
Persisted(instance, st) ==
    /\ instance.pk # 0
    /\ \E r \in st : r.pk = instance.pk /\ r.attrs["name"] = instance.attrs["name"]

\* C5: after save(commit=True) of a formset has returned, every processed
\* sub-form without the deletion flag has its instance in the returned list
\* and, the instance being a document, in the store; a skipped sub-form has
\* neither.
C5_CommitPersists ==
    fset.pc = "done" /\ fset.commit /\ fset.outcome = "returned" =>
        \A i \in DOMAIN fset.forms :
            /\ i \in Processed /\ ~fset.forms[i].del =>
                  /\ i \in SavedIndices
                  /\ HasSave(fset.forms[i].instance) => Persisted(fset.forms[i].instance, store)
            /\ i \notin Processed => i \notin SavedIndices

\* the uniqueness errors the validation of the sub-forms found: the sub-form
\* and the field
Conflicts ==
    {<<i, n>> \in (DOMAIN fset.forms) \X UniqueNames(fset.cls.document) :
        fset.forms[i].has_cleaned /\ InSeq("exists", fset.forms[i].errors[n])}

\* C10: the formset's clean step adds up the uniqueness errors of the
\* sub-forms that have cleaned data; when a sub-form has a conflict the
\* formset's validation fails with the list of them.
C10_ConflictsAggregated ==
    fset.pc \in {"validated", "failed", "done"} =>
        /\ Conflicts # {} => fset.raised
        /\ Len(fset.unique_errors) = Cardinality(Conflicts)
        /\ \A c \in Conflicts : InSeq(c[2], fset.unique_errors)

----------------------------------------------------------------------------
(* Properties of the class definition *)

\* n is a schema field a form field can be derived from
Derivable(document, n) ==
    \E i \in DOMAIN SchemaOf(document) :
        SchemaOf(document)[i].name = n /\ SchemaOf(document)[i].kind \notin {"objectid", "list"}

DeclaredNames(c) == {c.declared[i][1] : i \in DOMAIN c.declared}

\* the callback returned None for the schema field n
CallbackSkips(c, n) == c.callback = "callable" /\ n \in c.cbskip /\ Derivable(c.document, n)

\* C7: whatever the allow-list, the deny-list and the declared fields, an
\* allow-list name that is neither derivable from the schema nor declared
\* makes the class definition fail with a FieldError naming it (looked at
\* for the classes without a callback, where no TypeError comes first).
C7_AnyUnknownNameFails ==
    cls.status # "pending" /\ cfg.callback = "none" =>
        \A n \in Range(cfg.fields.names) :
            ~Derivable(cfg.document, n) /\ n \notin DeclaredNames(cfg) =>
                cls.status = "FieldError" /\ n \in cls.missing

\* the names fields_for_document made a form field for, in its order
DerivedNames == Keys(SelectSeq(cls.auto, LAMBDA p : p[2].ok))

\* the schema fields that pass the allow-list and the deny-list
Passing(c) ==
    {n \in SchemaNames(c.document) :
        /\ Derivable(c.document, n)
        /\ c.fields.given => InSeq(n, c.fields.names)
        /\ n \notin Range(c.exclude.names)}

SchemaPosition(document, n) == IndexOf(n, [i \in DOMAIN SchemaOf(document) |-> SchemaOf(document)[i].name])

\* s lists its names in the order Pos gives them
OrderedBy(s, Pos(_)) == \A i, j \in DOMAIN s : i < j => Pos(s[i]) < Pos(s[j])

\* C8 as stated: the derived mapping holds exactly the passing schema fields,
\* in schema order (checked for the classes without a callback).
C8_DerivedInSchemaOrder ==
    cls.status \in {"ok", "FieldError"} /\ cfg.callback = "none" /\ Passing([cfg EXCEPT !.fields = NoList, !.exclude = NoList]) # {} =>
        /\ Range(DerivedNames) = Passing(cfg)
        /\ OrderedBy(DerivedNames, LAMBDA n : SchemaPosition(cfg.document, n))

\* C8 amended: the derived mapping holds exactly the passing schema fields the
\* callback did not skip; they come in the allow-list's order when a
\* non-empty allow-list is given and in schema order otherwise.
C8_DerivedFields ==
    cls.status \in {"ok", "FieldError"} /\ Passing([cfg EXCEPT !.fields = NoList, !.exclude = NoList]) # {} =>
        /\ Range(DerivedNames) = {n \in Passing(cfg) : ~CallbackSkips(cfg, n)}
        /\ IF Truthy(cfg.fields)
           THEN OrderedBy(DerivedNames, LAMBDA n : IndexOf(n, cfg.fields.names))
           ELSE OrderedBy(DerivedNames, LAMBDA n : SchemaPosition(cfg.document, n))

\* C8 witness: an allow-list that reverses the schema order is followed
C8_Witness ==
    /\ cls.status = "ok"
    /\ cfg.document = "Doc"
    /\ DerivedNames = <<"photo", "name">>

\* the form field the class definition derived for schema field n
DerivedField(n) == Get(cls.auto, n)

\* C11: a schema field named by the widget override map whose form field was
\* derived carries the overriding widget, with or without a field callback.
C11_WidgetOverrideCarried ==
    cls.status \in {"ok", "FieldError"} =>
        \A n \in cfg.widgets :
            HasKey(cls.auto, n) /\ DerivedField(n).ok => DerivedField(n).widget = "override"

\* C12: a field callback that is not invocable makes the class definition
\* fail with a configuration error, whatever the document class, the
\* allow-list and the deny-list are.
C12_NonCallableFails ==
    cls.status # "pending" /\ cfg.callback = "notcallable" =>
        cls.status \in {"TypeError", "FieldError"}

====
